---- MODULE Spec2Model ----
(***************************************************************************)
(* Model of the kernelle self-update command                               *)
(* (crates/kernelle/src/commands/update.rs).                               *)
(*                                                                         *)
(* The file system is a function from paths to node contents.  A path is   *)
(* a sequence of names under one of four roots: the state directory        *)
(* (KERNELLE_HOME), the binary directory (INSTALL_DIR), the staging        *)
(* TempDir of execute and the TempDir perform_rollback creates.            *)
(***************************************************************************)
EXTENDS Integers, Sequences, FiniteSets, TLC

VARIABLES
    pc,             \* position of execute: the step about to run, or "done"
    fs,             \* the file system: path -> "dir" or a file's content
    order,          \* the order in which fs::read_dir lists entries
    search_path,    \* PATH: the directories a command name is looked up in
    version,        \* the argument of execute: a version, or "None"
    target_version, \* execute's target_version
    extracted_dir,  \* execute's extracted_dir
    snapshot_dir,   \* execute's snapshot_dir
    timestamp,      \* the name create_snapshot derives from the clock
    result,         \* what execute returned
    error,          \* the `e` that install or verify returned
    rollback,       \* what perform_rollback returned, and how often it ran
    snap,           \* the result of create_snapshot (of its last call)
    pre,            \* the file system when the run began
    atSnapshot,     \* the file system when create_snapshot was called
    beforeRollback, \* the file system when perform_rollback was called
    log             \* the steps the run has taken, each with its success

vars == <<pc, fs, order, search_path, version, target_version,
          extracted_dir, snapshot_dir, timestamp, result, error, rollback,
          snap, pre, atSnapshot,
          beforeRollback, log>>

----------------------------------------------------------------------------
(* Bounds *)

\* Longest path, in components, the file system accepts (PATH_MAX): creating
\* a longer one fails with ENAMETOOLONG.
MaxPathLen == 8

\* Largest number of file-system operations after which an I/O fault
\* (permission denied, disk full) is injected into one call.
MaxFault == 24

----------------------------------------------------------------------------
(* Paths and names *)

NoPath == <<>>

kernelle_home == <<"home">>
install_dir == <<"bin">>
staging_dir == <<"tmp">>
temp_snapshots == <<"rbtmp">>
other_bin == <<"usr">>

snapshots_dir == Append(kernelle_home, "snapshots")
kernelle_staging == Append(staging_dir, "kernelle_home")
bins_staging == Append(staging_dir, "bins")
tarball_path == Append(staging_dir, "kernelle.tar.gz")

binaries == <<"kernelle", "jerrod", "blizz", "violet", "adam", "sentinel">>

BinaryNames == {binaries[i] : i \in 1..Len(binaries)}

\* Every name a directory entry can have, in one listing order.
AllNames ==
    <<"config", "kernelle", "jerrod", "blizz", "violet", "adam", "sentinel",
      "kernelle_home", "bins", "kernelle.tar.gz", "scripts", "install.sh",
      "TravelSizedLions-kernelle-abc123", "release-abc123",
      "snapshots", "pre_update_1", "pre_update_2">>

Range(s) == {s[i] : i \in DOMAIN s}

Reverse(s) == [i \in DOMAIN s |-> s[Len(s) + 1 - i]]

\* fs::read_dir gives no order: the model lets it be either of two.
Orders == {"listed", "reversed"}

Listing(ord) == IF ord = "listed" THEN AllNames ELSE Reverse(AllNames)

Timestamps == {"pre_update_1", "pre_update_2"}

\* Values of PATH: the binary directory alone, or behind another directory.
SearchPaths == {<<install_dir>>, <<other_bin, install_dir>>}

----------------------------------------------------------------------------
(* File system primitives *)

IsPrefix(p, q) == Len(p) <= Len(q) /\ SubSeq(q, 1, Len(p)) = p

Exists(f, p) == p \in DOMAIN f

IsDir(f, p) == Exists(f, p) /\ f[p] = "dir"

Prefixes(p) == {SubSeq(p, 1, n) : n \in 1..Len(p)}

\* The subtree at p, as a function from relative paths to contents.
Tree(f, p) ==
    LET under == {q \in DOMAIN f : IsPrefix(p, q) /\ q # p}
        rel(q) == SubSeq(q, Len(p) + 1, Len(q))
    IN  [r \in {rel(q) : q \in under} |-> f[p \o r]]

\* The subtree at p without the entry `name` and what lies below it.
TreeExcept(f, p, name) ==
    LET t == Tree(f, p)
    IN  [r \in {q \in DOMAIN t : q[1] # name} |-> t[r]]

Write(f, p, c) == [q \in DOMAIN f \cup {p} |-> IF q = p THEN c ELSE f[q]]

MkDirs(f, p) ==
    [q \in DOMAIN f \cup Prefixes(p) |-> IF q \in DOMAIN f THEN f[q] ELSE "dir"]

Remove(f, p) == [q \in {r \in DOMAIN f : ~IsPrefix(p, r)} |-> f[q]]

\* fs::read_dir: the names of the entries of p, in the listing order.
ReadDir(f, p, ord) ==
    SelectSeq(Listing(ord), LAMBDA n : Exists(f, Append(p, n)))

\* Results of a file-system call: the file system it leaves, whether it
\* succeeded, the operations left before the injected fault (-1: no fault
\* is injected) and the error.
Res(f, ok, fuel, err) == [fs |-> f, ok |-> ok, fuel |-> fuel, err |-> err]

Tick(fuel) == IF fuel > 0 THEN fuel - 1 ELSE fuel

Fuels == {-1} \cup (0..MaxFault)

\* fs::create_dir_all
CreateDirAll(f, p, fuel) ==
    IF fuel = 0 THEN Res(f, FALSE, 0, "io")
    ELSE IF Len(p) > MaxPathLen THEN Res(f, FALSE, fuel, "ENAMETOOLONG")
    ELSE IF \E q \in Prefixes(p) : Exists(f, q) /\ ~IsDir(f, q)
         THEN Res(f, FALSE, fuel, "io")
    ELSE Res(MkDirs(f, p), TRUE, Tick(fuel), "none")

\* fs::copy
CopyFile(f, src, dst, fuel) ==
    IF fuel = 0 THEN Res(f, FALSE, 0, "io")
    ELSE IF Len(dst) > MaxPathLen THEN Res(f, FALSE, fuel, "ENAMETOOLONG")
    ELSE IF ~Exists(f, src) \/ IsDir(f, src) \/ IsDir(f, dst)
            \/ ~IsDir(f, SubSeq(dst, 1, Len(dst) - 1))
         THEN Res(f, FALSE, fuel, "io")
    ELSE Res(Write(f, dst, f[src]), TRUE, Tick(fuel), "none")

\* fs::remove_file
RemoveFile(f, p, fuel) ==
    IF fuel = 0 THEN Res(f, FALSE, 0, "io")
    ELSE IF ~Exists(f, p) \/ IsDir(f, p) THEN Res(f, FALSE, fuel, "io")
    ELSE Res(Remove(f, p), TRUE, Tick(fuel), "none")

\* fs::remove_dir_all.  An injected fault strikes after the entries listed
\* first have been removed: `fuel` counts them.
RECURSIVE RemoveEntries(_, _, _, _)
RemoveEntries(f, p, names, fuel) ==
    IF names = <<>> THEN Res(f, TRUE, fuel, "none")
    ELSE IF fuel = 0 THEN Res(f, FALSE, 0, "io")
    ELSE RemoveEntries(Remove(f, Append(p, Head(names))), p, Tail(names),
                       Tick(fuel))

RemoveDirAll(f, p, ord, fuel) ==
    LET r == RemoveEntries(f, p, ReadDir(f, p, ord), fuel)
    IN  IF ~IsDir(f, p) THEN Res(f, FALSE, fuel, "io")
        ELSE IF ~r.ok THEN r
        ELSE IF r.fuel = 0 THEN Res(r.fs, FALSE, 0, "io")
        ELSE Res(Remove(r.fs, p), TRUE, Tick(r.fuel), "none")

\* copy_dir_recursive
RECURSIVE copy_dir_recursive(_, _, _, _, _)
RECURSIVE CopyEntries(_, _, _, _, _, _)
copy_dir_recursive(f, src, dst, ord, fuel) ==
    IF ~Exists(f, src) THEN Res(f, TRUE, fuel, "none")   \* Nothing to copy
    ELSE LET made == CreateDirAll(f, dst, fuel)
         IN  IF ~made.ok THEN made
             ELSE CopyEntries(made.fs, src, dst, ReadDir(made.fs, src, ord),
                              ord, made.fuel)

CopyEntries(f, src, dst, names, ord, fuel) ==
    IF names = <<>> THEN Res(f, TRUE, fuel, "none")
    ELSE LET src_path == Append(src, Head(names))
             dst_path == Append(dst, Head(names))
             r == IF IsDir(f, src_path)
                  THEN copy_dir_recursive(f, src_path, dst_path, ord, fuel)
                  ELSE CopyFile(f, src_path, dst_path, fuel)
         IN  IF ~r.ok THEN r
             ELSE CopyEntries(r.fs, src, dst, Tail(names), ord, r.fuel)

----------------------------------------------------------------------------
(* Results of execute *)

NoResult == [kind |-> "none", msg |-> <<>>]
Ok == [kind |-> "Ok", msg |-> <<>>]
Err(msg) == [kind |-> "Err", msg |-> msg]

\* Mutant: a successful rollback makes execute return Ok.
RolledBackReportsOk(e) == Ok

\* anyhow!("Update failed and was rolled back: {}", e)
RolledBackErr(e) == Err(<<"Update failed and was rolled back: ", e>>)

\* Mutant: the rollback's error takes the place of the original error.
RollbackFailedErrOnly(e, rollback_err) ==
    Err(<<"Update failed: ", rollback_err, ". Rollback also failed: ",
          rollback_err, ". Manual recovery may be needed.">>)

\* anyhow!("Update failed: {}. Rollback also failed: {}. Manual recovery may
\* be needed.", e, rollback_err)
RollbackFailedErr(e, rollback_err) ==
    Err(<<"Update failed: ", e, ". Rollback also failed: ", rollback_err,
          ". Manual recovery may be needed.">>)

\* Mutant: the staging TempDir is kept when execute returns.
KeepStaging(f) == f

\* Mutant: leaving execute also clears the snapshots directory.
DropStagingAndSnapshots(f) ==
    Remove(Remove(f, snapshots_dir), staging_dir)

\* Dropping the staging TempDir, which every return of execute after its
\* creation does.
DropStaging(f) == Remove(f, staging_dir)

\* A step of the run and whether it succeeded
Step(name, ok) == [step |-> name, ok |-> ok]

----------------------------------------------------------------------------
(* Version resolution and staging *)

Versions == {"None", "v1.0.0"}

\* The archives the release service can serve, as trees relative to the
\* directory they are extracted into.
GoodArchive ==
    (<<"TravelSizedLions-kernelle-abc123">> :> "dir")
    @@ (<<"TravelSizedLions-kernelle-abc123", "scripts">> :> "dir")
    @@ (<<"TravelSizedLions-kernelle-abc123", "scripts", "install.sh">>
            :> "script")

NoScriptArchive == (<<"TravelSizedLions-kernelle-abc123">> :> "dir")

OtherNameArchive ==
    (<<"release-abc123">> :> "dir")
    @@ (<<"release-abc123", "scripts">> :> "dir")
    @@ (<<"release-abc123", "scripts", "install.sh">> :> "script")

EmptyArchive == [p \in {} |-> "dir"]

Archives == {GoodArchive, NoScriptArchive, OtherNameArchive, EmptyArchive}

\* tar -xzf in `into`
Extract(f, archive, into) ==
    [q \in DOMAIN f \cup {into \o r : r \in DOMAIN archive} |->
        IF \E r \in DOMAIN archive : q = into \o r
        THEN archive[SubSeq(q, Len(into) + 1, Len(q))]
        ELSE f[q]]

\* file_name.contains("kernelle"), over the names of the model
ContainsKernelle(name) ==
    name \in {"kernelle", "kernelle_home", "kernelle.tar.gz",
              "TravelSizedLions-kernelle-abc123"}

\* The loop that ends download_and_extract: the first listed entry of
\* staging_path that is a directory whose name contains "kernelle" and that
\* is not the parent of the tarball; NoPath when there is none.
FindExtracted(f, staging_path, ord) ==
    LET hits == SelectSeq(ReadDir(f, staging_path, ord),
                    LAMBDA n : /\ IsDir(f, Append(staging_path, n))
                               /\ ContainsKernelle(n)
                               /\ Append(staging_path, n)
                                    # SubSeq(tarball_path, 1,
                                             Len(tarball_path) - 1))
    IN  IF hits = <<>> THEN NoPath ELSE Append(staging_path, Head(hits))

ResolveVersion ==
    /\ pc = "ResolvingVersion"
    /\ \/ /\ version # "None"
          /\ target_version' = version
          /\ pc' = "CreateStaging"
          /\ UNCHANGED result
       \/ /\ version = "None"
          /\ \E tag \in {"v2.0.0"} :
                /\ target_version' = tag
                /\ pc' = "CreateStaging"
                /\ UNCHANGED result
       \/ /\ version = "None"       \* get_latest_version fails
          /\ result' = Err(<<"ResolutionError">>)
          /\ pc' = "done"
          /\ UNCHANGED target_version
    /\ UNCHANGED <<fs, order, search_path, version, extracted_dir,
                   snapshot_dir, timestamp, error, rollback, snap, pre,
                   atSnapshot, beforeRollback>>
    /\ log' = Append(log, Step("ResolvingVersion", pc' # "done"))

\* TempDir::new and the two fs::create_dir_all of the staged directories
CreateStaging ==
    /\ pc = "CreateStaging"
    /\ \/ /\ fs' = MkDirs(MkDirs(fs, kernelle_staging), bins_staging)
          /\ pc' = "StagingDownload"
          /\ UNCHANGED result
       \/ /\ result' = Err(<<"Failed to create staging directory">>)
          /\ pc' = "done"
          /\ UNCHANGED fs
    /\ UNCHANGED <<order, search_path, version, target_version, extracted_dir,
                   snapshot_dir, timestamp, error, rollback, snap, pre,
                   atSnapshot, beforeRollback>>
    /\ log' = Append(log, Step("CreateStaging", pc' # "done"))

DownloadAndExtract ==
    /\ pc = "StagingDownload"
    /\ \/ \E why \in {"DownloadError", "ExtractionError"} :
            /\ result' = Err(<<why>>)
            /\ fs' = DropStaging(fs)
            /\ pc' = "done"
            /\ UNCHANGED extracted_dir
       \/ \E archive \in Archives :
            LET written == Write(fs, tarball_path, "tarball")
                unpacked == Extract(written, archive, staging_dir)
                found == FindExtracted(unpacked, staging_dir, order)
            IN  IF found = NoPath
                THEN /\ result' = Err(<<"ExtractionError">>)
                     /\ fs' = DropStaging(unpacked)
                     /\ pc' = "done"
                     /\ UNCHANGED extracted_dir
                ELSE /\ extracted_dir' = found
                     /\ fs' = unpacked
                     /\ pc' = "StagingValidate"
                     /\ UNCHANGED result
    /\ UNCHANGED <<order, search_path, version, target_version,
                   snapshot_dir, timestamp, error, rollback, snap, pre,
                   atSnapshot, beforeRollback>>
    /\ log' = Append(log, Step("StagingDownload", pc' # "done"))

\* What install.sh can do when it is given KERNELLE_HOME and INSTALL_DIR: its
\* exit status and the primary binary it leaves in INSTALL_DIR.
ScriptRuns ==
    [exit : {"ok", "failed"}, kernelle : {"absent", "new", "bad"}]

\* install.sh --non-interactive with KERNELLE_HOME = home, INSTALL_DIR = bins
RunInstallScript(f, home, bins, run) ==
    LET g == Write(MkDirs(f, home), Append(home, "config"), "new")
    IN  IF run.kernelle = "absent" THEN g
        ELSE Write(MkDirs(g, bins), Append(bins, "kernelle"), run.kernelle)

\* <binary> --version
VersionCheck(f, bin) == Exists(f, bin) /\ f[bin] \in {"old", "new"}

\* Mutant: install.sh is run without the overrides, on the production paths.
test_build_unscoped(f, source_dir, home, bins, run) ==
    LET install_script == source_dir \o <<"scripts", "install.sh">>
        g == RunInstallScript(f, kernelle_home, install_dir, run)
        kernelle_bin == Append(install_dir, "kernelle")
    IN  IF ~Exists(f, install_script)
        THEN [fs |-> f, err |-> "StagingBuildError: install.sh not found"]
        ELSE IF run.exit # "ok"
        THEN [fs |-> g, err |-> "StagingBuildError"]
        ELSE IF ~Exists(g, kernelle_bin)
        THEN [fs |-> g, err |-> "StagingSmokeTestError: not found"]
        ELSE IF ~VersionCheck(g, kernelle_bin)
        THEN [fs |-> g, err |-> "StagingSmokeTestError"]
        ELSE [fs |-> g, err |-> "none"]

\* test_build_in_staging(source_dir, kernelle_home, install_dir): the file
\* system it leaves and its result.
test_build_in_staging(f, source_dir, home, bins, run) ==
    LET install_script == source_dir \o <<"scripts", "install.sh">>
        g == RunInstallScript(f, home, bins, run)
        kernelle_bin == Append(bins, "kernelle")
    IN  IF ~Exists(f, install_script)
        THEN [fs |-> f, err |-> "StagingBuildError: install.sh not found"]
        ELSE IF run.exit # "ok"
        THEN [fs |-> g, err |-> "StagingBuildError"]
        ELSE IF ~Exists(g, kernelle_bin)
        THEN [fs |-> g, err |-> "StagingSmokeTestError: not found"]
        ELSE IF ~VersionCheck(g, kernelle_bin)
        THEN [fs |-> g, err |-> "StagingSmokeTestError"]
        ELSE [fs |-> g, err |-> "none"]

\* Mutant: the result of test_build_in_staging is not looked at.
TestBuildInStagingUnchecked ==
    /\ pc = "StagingValidate"
    /\ \E run \in ScriptRuns :
         LET r == test_build_in_staging(fs, extracted_dir, kernelle_staging,
                                        bins_staging, run)
         IN  /\ fs' = r.fs
             /\ pc' = "Snapshotting"
             /\ log' = Append(log, Step("StagingValidate", r.err = "none"))
    /\ UNCHANGED <<order, search_path, version, target_version, extracted_dir,
                   snapshot_dir, timestamp, result, error, rollback, snap,
                   pre, atSnapshot, beforeRollback>>

TestBuildInStaging ==
    /\ pc = "StagingValidate"
    /\ \E run \in ScriptRuns :
         LET r == test_build_in_staging(fs, extracted_dir, kernelle_staging,
                                        bins_staging, run)
         IN  IF r.err = "none"
             THEN /\ fs' = r.fs
                  /\ pc' = "Snapshotting"
                  /\ UNCHANGED result
             ELSE /\ fs' = DropStaging(r.fs)
                  /\ result' = Err(<<r.err>>)
                  /\ pc' = "done"
    /\ UNCHANGED <<order, search_path, version, target_version, extracted_dir,
                   snapshot_dir, timestamp, error, rollback, snap, pre,
                   atSnapshot, beforeRollback>>
    /\ log' = Append(log, Step("StagingValidate", pc' # "done"))

----------------------------------------------------------------------------
(* Snapshot *)

\* The loop over `binaries` of create_snapshot
RECURSIVE BackupBinaries(_, _, _, _)
BackupBinaries(f, bins_snapshot, names, fuel) ==
    IF names = <<>> THEN Res(f, TRUE, fuel, "none")
    ELSE LET src == Append(install_dir, Head(names))
             dst == Append(bins_snapshot, Head(names))
             r == IF Exists(f, src) THEN CopyFile(f, src, dst, fuel)
                  ELSE Res(f, TRUE, fuel, "none")
         IN  IF ~r.ok THEN r
             ELSE BackupBinaries(r.fs, bins_snapshot, Tail(names), r.fuel)

\* Mutant: the snapshot directory is made in the state directory itself.
SnapshotDirInHome(ts) == Append(kernelle_home, ts)

SnapshotDir(ts) == Append(snapshots_dir, ts)

\* The steps of create_snapshot, each on the result of the step before it.
MakeDir(r, p) == IF ~r.ok THEN r ELSE CreateDirAll(r.fs, p, r.fuel)

CopyHome(r, kernelle_snapshot, ord) ==
    IF ~r.ok THEN r
    ELSE copy_dir_recursive(r.fs, kernelle_home, kernelle_snapshot, ord,
                            r.fuel)

BackupBins(r, bins_snapshot) ==
    IF ~r.ok THEN r
    ELSE BackupBinaries(r.fs, bins_snapshot, binaries, r.fuel)

create_snapshot(f, ts, ord, fuel) ==
    BackupBins(
      MakeDir(
        CopyHome(
          MakeDir(CreateDirAll(f, snapshots_dir, fuel), SnapshotDir(ts)),
          Append(SnapshotDir(ts), "kernelle_home"), ord),
        Append(SnapshotDir(ts), "bins")),
      Append(SnapshotDir(ts), "bins"))

CreateSnapshot ==
    /\ pc = "Snapshotting"
    /\ \E fuel \in Fuels :
         LET r == create_snapshot(fs, timestamp, order, fuel)
         IN  /\ snap' = [calls |-> snap.calls + 1, ok |-> r.ok,
                         err |-> r.err]
             /\ atSnapshot' = fs
             /\ IF r.ok
                THEN /\ snapshot_dir' = SnapshotDir(timestamp)
                     /\ fs' = r.fs
                     /\ pc' = "Installing"
                     /\ UNCHANGED result
                ELSE /\ fs' = DropStaging(r.fs)
                     /\ result' = Err(<<"SnapshotError", r.err>>)
                     /\ pc' = "done"
                     /\ UNCHANGED snapshot_dir
    /\ UNCHANGED <<order, search_path, version, target_version,
                   extracted_dir, timestamp, error, rollback, pre,
                   beforeRollback>>
    /\ log' = Append(log, Step("Snapshotting", pc' # "done"))

----------------------------------------------------------------------------
(* The update run, from its start *)

\* Installations the run can find: the state directory is absent, empty or
\* holds a configuration file, with or without an older snapshot directory;
\* of the named binaries, kernelle and jerrod may be installed.
NoFiles == [p \in {} |-> "dir"]

HomeTrees ==
    { NoFiles,
      kernelle_home :> "dir",
      (kernelle_home :> "dir") @@ (Append(kernelle_home, "config") :> "old"),
      (kernelle_home :> "dir") @@ (Append(kernelle_home, "config") :> "old")
        @@ (Append(kernelle_home, "snapshots") :> "dir")
        @@ (kernelle_home \o <<"snapshots", "pre_update_1">> :> "dir") }

BinTrees ==
    { (install_dir :> "dir") @@ b : b \in
        { NoFiles,
          Append(install_dir, "kernelle") :> "old",
          Append(install_dir, "kernelle") :> "bad",
          (Append(install_dir, "kernelle") :> "old")
            @@ (Append(install_dir, "jerrod") :> "old") } }

Init ==
    /\ pc = "ResolvingVersion"
    /\ \E h \in HomeTrees, b \in BinTrees : fs = h @@ b
    /\ order \in Orders
    /\ search_path \in SearchPaths
    /\ version \in Versions
    /\ target_version = "none"
    /\ extracted_dir = NoPath
    /\ snapshot_dir = NoPath
    /\ timestamp \in Timestamps
    /\ result = NoResult
    /\ error = "none"
    /\ rollback = [calls |-> 0, res |-> "none"]
    /\ snap = [calls |-> 0, ok |-> FALSE, err |-> "none"]
    /\ pre = fs
    /\ atSnapshot = NoFiles
    /\ beforeRollback = NoFiles
    /\ log = <<>>

Next ==
    \/ ResolveVersion
    \/ CreateStaging
    \/ DownloadAndExtract
    \/ TestBuildInStaging
    \/ CreateSnapshot

Spec == Init /\ [][Next]_vars

----------------------------------------------------------------------------
(* Install, verify and rollback *)

\* What install.sh can do when it runs without overrides, on the production
\* paths: its exit status, and what it does to the configuration file of the
\* state directory and to the binaries kernelle and jerrod.
InstallRuns ==
    [exit : {"ok", "failed"},
     config : {"keep", "new", "delete"},
     kernelle : {"keep", "new", "bad", "delete"},
     jerrod : {"keep", "new"}]

Put(f, p, what) ==
    IF what = "keep" THEN f
    ELSE IF what = "delete" THEN Remove(f, p)
    ELSE Write(MkDirs(f, SubSeq(p, 1, Len(p) - 1)), p, what)

\* install_new_version: the file system install.sh leaves
install_new_version(f, run) ==
    Put(Put(Put(f, Append(kernelle_home, "config"), run.config),
            Append(install_dir, "kernelle"), run.kernelle),
        Append(install_dir, "jerrod"), run.jerrod)

\* Command::new("kernelle"): the first directory of PATH that has the binary
RECURSIVE Which(_, _, _)
Which(f, dirs, name) ==
    IF dirs = <<>> THEN NoPath
    ELSE IF Exists(f, Append(Head(dirs), name)) THEN Append(Head(dirs), name)
    ELSE Which(f, Tail(dirs), name)

VerifyErrors ==
    {"Failed to test kernelle after installation",
     "kernelle failed version check after installation"}

\* verify_installation: "none", or the error
verify_installation(f, dirs) ==
    LET bin == Which(f, dirs, "kernelle")
    IN  IF bin = NoPath THEN "Failed to test kernelle after installation"
        ELSE IF ~VersionCheck(f, bin)
        THEN "kernelle failed version check after installation"
        ELSE "none"

\* The steps of perform_rollback's lines 370-395, each on the result of the
\* step before it: a failed step is what `?` returns.
\* tempfile::tempdir()
MakeTemp(f, fuel) == CreateDirAll(f, temp_snapshots, fuel)

\* Create a temporary backup of current snapshots
SaveAside(r, ord) ==
    IF ~r.ok \/ ~Exists(r.fs, snapshots_dir) THEN r
    ELSE copy_dir_recursive(r.fs, snapshots_dir,
                            Append(temp_snapshots, "snapshots"), ord, r.fuel)

\* Clear current kernelle home
ClearHome(r, ord) ==
    IF ~r.ok \/ ~Exists(r.fs, kernelle_home) THEN r
    ELSE RemoveDirAll(r.fs, kernelle_home, ord, r.fuel)

\* Restore from backup
CopyBackup(r, kernelle_backup, ord) ==
    IF ~r.ok THEN r
    ELSE copy_dir_recursive(r.fs, kernelle_backup, kernelle_home, ord, r.fuel)

\* Restore the snapshots directory
ClearSnapshots(r, ord) ==
    IF ~r.ok \/ ~Exists(r.fs, snapshots_dir) THEN r
    ELSE RemoveDirAll(r.fs, snapshots_dir, ord, r.fuel)

PutBack(r, ord) ==
    IF ~r.ok THEN r
    ELSE copy_dir_recursive(r.fs, Append(temp_snapshots, "snapshots"),
                            snapshots_dir, ord, r.fuel)

\* The TempDir temp_snapshots is dropped when the block is left, by its end
\* or by an early return.
DropTemp(r) == Res(Remove(r.fs, temp_snapshots), r.ok, r.fuel, r.err)

\* perform_rollback, lines 370-395: restore the state directory
RestoreHome(f, snapshot_path, ord, fuel) ==
    IF ~Exists(f, Append(snapshot_path, "kernelle_home"))
    THEN Res(f, TRUE, fuel, "none")
    ELSE DropTemp(
           PutBack(
             ClearSnapshots(
               CopyBackup(
                 ClearHome(SaveAside(MakeTemp(f, fuel), ord), ord),
                 Append(snapshot_path, "kernelle_home"), ord),
               ord),
             ord))

\* Mutant: a binary that is still installed is not replaced by its backup.
RECURSIVE RestoreBinariesSkip(_, _, _, _)
RestoreBinariesSkip(f, bins_backup, names, fuel) ==
    IF names = <<>> THEN Res(f, TRUE, fuel, "none")
    ELSE LET backup_bin == Append(bins_backup, Head(names))
             install_bin == Append(install_dir, Head(names))
             r == IF ~Exists(f, backup_bin) \/ Exists(f, install_bin)
                  THEN Res(f, TRUE, fuel, "none")
                  ELSE CopyFile(f, backup_bin, install_bin, fuel)
         IN  IF ~r.ok THEN r
             ELSE RestoreBinariesSkip(r.fs, bins_backup, Tail(names), r.fuel)

\* Mutant: a binary without a backup is removed.
RECURSIVE RestoreBinariesExact(_, _, _, _)
RestoreBinariesExact(f, bins_backup, names, fuel) ==
    IF names = <<>> THEN Res(f, TRUE, fuel, "none")
    ELSE LET backup_bin == Append(bins_backup, Head(names))
             install_bin == Append(install_dir, Head(names))
             removed == IF Exists(f, install_bin)
                        THEN RemoveFile(f, install_bin, fuel)
                        ELSE Res(f, TRUE, fuel, "none")
             r == IF ~removed.ok \/ ~Exists(f, backup_bin) THEN removed
                  ELSE CopyFile(removed.fs, backup_bin, install_bin,
                                removed.fuel)
         IN  IF ~r.ok THEN r
             ELSE RestoreBinariesExact(r.fs, bins_backup, Tail(names),
                                       r.fuel)

\* Mutant: the backup is copied only when no binary had to be removed.
RECURSIVE RestoreBinariesElse(_, _, _, _)
RestoreBinariesElse(f, bins_backup, names, fuel) ==
    IF names = <<>> THEN Res(f, TRUE, fuel, "none")
    ELSE LET backup_bin == Append(bins_backup, Head(names))
             install_bin == Append(install_dir, Head(names))
             r == IF ~Exists(f, backup_bin) THEN Res(f, TRUE, fuel, "none")
                  ELSE IF Exists(f, install_bin)
                  THEN RemoveFile(f, install_bin, fuel)
                  ELSE CopyFile(f, backup_bin, install_bin, fuel)
         IN  IF ~r.ok THEN r
             ELSE RestoreBinariesElse(r.fs, bins_backup, Tail(names),
                                      r.fuel)

\* perform_rollback, lines 397-414: restore the binaries
RECURSIVE RestoreBinaries(_, _, _, _)
RestoreBinaries(f, bins_backup, names, fuel) ==
    IF names = <<>> THEN Res(f, TRUE, fuel, "none")
    ELSE LET backup_bin == Append(bins_backup, Head(names))
             install_bin == Append(install_dir, Head(names))
             removed == IF Exists(f, install_bin)
                        THEN RemoveFile(f, install_bin, fuel)
                        ELSE Res(f, TRUE, fuel, "none")
             copied == CopyFile(removed.fs, backup_bin, install_bin,
                                removed.fuel)
             r == IF ~Exists(f, backup_bin) THEN Res(f, TRUE, fuel, "none")
                  ELSE IF ~removed.ok THEN removed
                  ELSE copied
         IN  IF ~r.ok THEN r
             ELSE RestoreBinaries(r.fs, bins_backup, Tail(names), r.fuel)

\* perform_rollback, lines 397-414
RestoreBins(r, bins_backup) ==
    IF ~r.ok \/ ~Exists(r.fs, bins_backup) THEN r
    ELSE RestoreBinaries(r.fs, bins_backup, binaries, r.fuel)

\* Mutant: the result of the closing verify_installation is dropped.
VerifyRollbackIgnored(r, dirs) == r

\* perform_rollback, lines 416-418
VerifyRollback(r, dirs) ==
    IF ~r.ok THEN r
    ELSE Res(r.fs, verify_installation(r.fs, dirs) = "none", r.fuel,
             verify_installation(r.fs, dirs))

perform_rollback(f, snapshot_path, ord, fuel, dirs) ==
    IF ~Exists(f, snapshot_path)
    THEN Res(f, FALSE, fuel, "Snapshot directory not found")
    ELSE VerifyRollback(
           RestoreBins(RestoreHome(f, snapshot_path, ord, fuel),
                       Append(snapshot_path, "bins")),
           dirs)

\* Mutant: the verification follows the installer whatever it returned.
InstallNewVersionUnchecked ==
    /\ pc = "Installing"
    /\ \E run \in InstallRuns :
         /\ fs' = install_new_version(fs, run)
         /\ pc' = "Verifying"
         /\ log' = Append(log, Step("Installing", run.exit = "ok"))
    /\ UNCHANGED <<order, search_path, version, target_version,
                   extracted_dir, snapshot_dir, timestamp, result, error,
                   rollback, snap, pre, atSnapshot, beforeRollback>>

InstallNewVersion ==
    /\ pc = "Installing"
    /\ \E run \in InstallRuns :
         /\ fs' = install_new_version(fs, run)
         /\ IF run.exit = "ok"
            THEN pc' = "Verifying" /\ UNCHANGED error
            ELSE pc' = "RollingBack" /\ error' = "InstallError"
    /\ UNCHANGED <<order, search_path, version, target_version,
                   extracted_dir, snapshot_dir, timestamp, result, rollback,
                   snap, pre, atSnapshot, beforeRollback>>
    /\ log' = Append(log, Step("Installing", pc' = "Verifying"))

\* Mutant: a failed verification is returned as it is, without a rollback.
VerifyInstallationReturns ==
    /\ pc = "Verifying"
    /\ LET e == verify_installation(fs, search_path)
       IN  /\ fs' = DropStaging(fs)
           /\ result' = IF e = "none" THEN Ok ELSE Err(<<e>>)
           /\ error' = IF e = "none" THEN error ELSE e
           /\ pc' = "done"
    /\ UNCHANGED <<order, search_path, version, target_version,
                   extracted_dir, snapshot_dir, timestamp, rollback, snap,
                   pre, atSnapshot, beforeRollback>>
    /\ log' = Append(log, Step("Verifying", result' = Ok))

VerifyInstallation ==
    /\ pc = "Verifying"
    /\ LET e == verify_installation(fs, search_path)
       IN  IF e = "none"
           THEN /\ fs' = DropStaging(fs)
                /\ result' = Ok
                /\ pc' = "done"
                /\ UNCHANGED error
           ELSE /\ error' = e
                /\ pc' = "RollingBack"
                /\ UNCHANGED <<fs, result>>
    /\ UNCHANGED <<order, search_path, version, target_version,
                   extracted_dir, snapshot_dir, timestamp, rollback, snap,
                   pre, atSnapshot, beforeRollback>>
    /\ log' = Append(log, Step("Verifying", pc' = "done"))

PerformRollback ==
    /\ pc = "RollingBack"
    /\ \E fuel \in Fuels :
         LET r == perform_rollback(fs, snapshot_dir, order, fuel,
                                   search_path)
         IN  /\ rollback' = [calls |-> rollback.calls + 1,
                             res |-> IF r.ok THEN "ok" ELSE r.err]
             /\ beforeRollback' = fs
             /\ fs' = DropStaging(r.fs)
             /\ result' = IF r.ok THEN RolledBackErr(error)
                          ELSE RollbackFailedErr(error, r.err)
             /\ pc' = "done"
    /\ UNCHANGED <<order, search_path, version, target_version,
                   extracted_dir, snapshot_dir, timestamp, error, snap, pre,
                   atSnapshot>>
    /\ log' = log \o (IF rollback'.res \in {"ok"} \cup VerifyErrors
                     THEN <<Step("RollbackVerify", rollback'.res = "ok")>>
                     ELSE <<>>)
                 \o <<Step("RollingBack", rollback'.res = "ok")>>

----------------------------------------------------------------------------
(* The update run, from the point where create_snapshot has returned *)

\* Under Spec, create_snapshot never returns Ok (its copy descends into its
\* own destination), so no behaviour of Spec reaches line 52.  SpecRestore
\* starts execute there, on every installation of the model that holds the
\* snapshot create_snapshot is written to return: install_new_version,
\* verify_installation and perform_rollback are checked on these states.

\* The snapshot directory create_snapshot is written to leave (lines
\* 274-298): kernelle_home holds the state directory's content, bins the
\* named binaries that exist.
Graft(f, at, tree) == Extract(MkDirs(f, at), tree, at)

SnapshotOf(f, ts) ==
    LET state == TreeExcept(f, kernelle_home, "snapshots")
        all == Tree(f, install_dir)
        bins == [r \in {q \in DOMAIN all : q[1] \in BinaryNames} |-> all[r]]
    IN  Graft(Graft(f, Append(SnapshotDir(ts), "kernelle_home"), state),
              Append(SnapshotDir(ts), "bins"), bins)

\* The staging directory after a successful test_build_in_staging
Staged(f) ==
    RunInstallScript(
        Extract(Write(MkDirs(MkDirs(f, kernelle_staging), bins_staging),
                      tarball_path, "tarball"),
                GoodArchive, staging_dir),
        kernelle_staging, bins_staging, [exit |-> "ok", kernelle |-> "new"])

InitRestore ==
    /\ pc = "Installing"
    /\ order \in Orders
    /\ search_path \in SearchPaths
    /\ version = "v1.0.0"
    /\ target_version = version
    /\ timestamp = "pre_update_2"
    /\ \E h \in HomeTrees \ {NoFiles}, b \in BinTrees,
          o \in {NoFiles, Append(other_bin, "kernelle") :> "old"} :
         /\ o # NoFiles => other_bin \in Range(search_path)
         /\ atSnapshot = h @@ b @@ o
         /\ pre = atSnapshot
         /\ fs = Staged(SnapshotOf(atSnapshot, timestamp))
    /\ extracted_dir = Append(staging_dir, "TravelSizedLions-kernelle-abc123")
    /\ snapshot_dir = SnapshotDir(timestamp)
    /\ result = NoResult
    /\ error = "none"
    /\ rollback = [calls |-> 0, res |-> "none"]
    /\ snap = [calls |-> 1, ok |-> TRUE, err |-> "none"]
    /\ beforeRollback = NoFiles
    /\ log = <<Step("ResolvingVersion", TRUE), Step("CreateStaging", TRUE),
                Step("StagingDownload", TRUE), Step("StagingValidate", TRUE),
                Step("Snapshotting", TRUE)>>

NextRestore ==
    \/ InstallNewVersion
    \/ VerifyInstallation
    \/ PerformRollback

SpecRestore == InitRestore /\ [][NextRestore]_vars

\* Both together: every step of execute, each from the states it can start
\* in.
InitRun == Init \/ InitRestore

NextRun == Next \/ NextRestore

SpecRun == InitRun /\ [][NextRun]_vars

----------------------------------------------------------------------------
(* What the claims speak of *)

\* The named binaries installed in the binary directory, with their content
Bins(f) ==
    [b \in {n \in BinaryNames : Exists(f, Append(install_dir, n))} |->
        f[Append(install_dir, b)]]

\* The state directory: whether it exists, and its content
StateDir(f) ==
    [exists |-> Exists(f, kernelle_home), tree |-> Tree(f, kernelle_home)]

\* Production: the state directory and the binary directory
Production(f) ==
    [p \in {q \in DOMAIN f : IsPrefix(kernelle_home, q)
                             \/ IsPrefix(install_dir, q)} |-> f[p]]

\* The UpdateOutcome a result of execute stands for
Outcome(r) ==
    IF r.kind = "none" THEN "none"
    ELSE IF r.kind = "Ok" THEN "Success"
    ELSE IF r.msg[1] = "Update failed and was rolled back: "
    THEN "RolledBack"
    ELSE IF r.msg[1] = "Update failed: " THEN "RollbackFailed"
    ELSE "Aborted"

\* perform_rollback returned after all its copy and remove steps succeeded:
\* it returned Ok, or the error of its closing verify_installation.
StepsSucceeded ==
    /\ rollback.calls = 1
    /\ rollback.res \in
         {"ok", "Failed to test kernelle after installation",
          "kernelle failed version check after installation"}

\* C1: when a run ends before create_snapshot was called (version
\* resolution, staging or staging validation failed), the state directory
\* and the named binaries are what they were when the run began, and
\* perform_rollback was not called.
C1_FailureBeforeSnapshotLeavesProduction ==
    (pc = "done" /\ snap.calls = 0) =>
        /\ StateDir(fs) = StateDir(pre)
        /\ Bins(fs) = Bins(pre)
        /\ rollback.calls = 0

\* A run that staged a release and failed its staging validation, on an
\* installation that has a state directory and a primary binary.
C1_Witness ==
    /\ pc = "done"
    /\ snap.calls = 0
    /\ result = Err(<<"StagingSmokeTestError">>)
    /\ Exists(pre, Append(kernelle_home, "config"))
    /\ Exists(pre, Append(install_dir, "kernelle"))

\* C2: after perform_rollback returned Ok, the state directory apart from
\* its snapshots subtree holds exactly what the snapshot's kernelle_home
\* held.
C2_RollbackRestoresStateDir ==
    (rollback.calls = 1 /\ rollback.res = "ok") =>
        /\ Exists(fs, kernelle_home)
        /\ TreeExcept(fs, kernelle_home, "snapshots")
             = Tree(beforeRollback, Append(snapshot_dir, "kernelle_home"))

\* C3: after perform_rollback ran with all its copy and remove steps
\* succeeding, every named binary that existed when the snapshot was taken
\* has the content it had then, whatever install.sh did.
C3_RollbackRestoresBinaries ==
    StepsSucceeded =>
        \A b \in DOMAIN Bins(atSnapshot) :
            /\ b \in DOMAIN Bins(fs)
            /\ Bins(fs)[b] = Bins(atSnapshot)[b]

\* install.sh replaced one backed-up binary and deleted nothing else that
\* the rollback then put back.
C3_Witness ==
    /\ StepsSucceeded
    /\ \E b \in DOMAIN Bins(atSnapshot) :
         /\ b \in DOMAIN Bins(beforeRollback)
         /\ Bins(beforeRollback)[b] # Bins(atSnapshot)[b]
    /\ \E b \in DOMAIN Bins(atSnapshot) : b \notin DOMAIN Bins(beforeRollback)

\* C4: after any call of perform_rollback, successful or failed, the
\* snapshot directory it was given exists with its content unchanged.
C4_RollbackKeepsSnapshot ==
    rollback.calls = 1 =>
        /\ IsDir(fs, snapshot_dir)
        /\ Tree(fs, snapshot_dir) = Tree(beforeRollback, snapshot_dir)

\* C5: create_snapshot fails only on an I/O fault: called on a finite state
\* directory with no fault injected, it returns a snapshot directory.
C5_SnapshotSucceedsWithoutFault ==
    (snap.calls = 1 /\ snap.err # "io") => snap.ok

C7_RollbackOutcomeKeepsOriginalError ==
    (pc = "done" /\ error # "none") =>
        /\ rollback.calls = 1
        /\ Outcome(result) # "Success"
        /\ rollback.res = "ok" =>
             /\ Outcome(result) = "RolledBack"
             /\ result.msg[2] = error
        /\ rollback.res # "ok" =>
             /\ Outcome(result) = "RollbackFailed"
             /\ result.msg[2] = error
             /\ result.msg[4] = rollback.res

\* install.sh failed and the rollback failed on an I/O fault.
C7_Witness ==
    /\ pc = "done"
    /\ error = "InstallError"
    /\ rollback.res = "io"
    /\ Outcome(result) = "RollbackFailed"

\* install.sh succeeded and verify_installation failed
VerifyFailed == error \notin {"none", "InstallError"}

\* C8 as claimed: when install succeeded and verify failed, the run ends
\* with RolledBack and the named binaries are those of the snapshot: the
\* same names, the same content.
C8_Original ==
    (pc = "done" /\ VerifyFailed) =>
        /\ Outcome(result) = "RolledBack"
        /\ Bins(fs) = Bins(atSnapshot)

\* C8 as amended: when install succeeded and verify failed, the run ends
\* with RolledBack if perform_rollback returned Ok and with RollbackFailed
\* otherwise; after RolledBack every named binary that existed at snapshot
\* time has its snapshot content, and every named binary that did not is as
\* install.sh left it.
C8_VerifyFailureRollsBack ==
    (pc = "done" /\ VerifyFailed) =>
        /\ Outcome(result) = IF rollback.res = "ok" THEN "RolledBack"
                             ELSE "RollbackFailed"
        /\ rollback.res = "ok" =>
             \A b \in BinaryNames :
                IF b \in DOMAIN Bins(atSnapshot)
                THEN /\ b \in DOMAIN Bins(fs)
                     /\ Bins(fs)[b] = Bins(atSnapshot)[b]
                ELSE /\ b \in DOMAIN Bins(fs)
                        <=> b \in DOMAIN Bins(beforeRollback)
                     /\ b \in DOMAIN Bins(fs) =>
                          Bins(fs)[b] = Bins(beforeRollback)[b]

\* install.sh replaced the primary binary by one that fails its version
\* check and added a binary; the rollback returned Ok.
C8_Witness ==
    /\ pc = "done"
    /\ VerifyFailed
    /\ Outcome(result) = "RolledBack"
    /\ DOMAIN Bins(fs) # DOMAIN Bins(atSnapshot)
    /\ Bins(beforeRollback)["kernelle"] = "bad"

\* C9: perform_rollback neither creates nor writes a named binary that did
\* not exist when the snapshot was taken: such a binary is after the
\* rollback as it was before it.
C9_RollbackLeavesUnsavedBinaries ==
    rollback.calls = 1 =>
        \A b \in BinaryNames \ DOMAIN Bins(atSnapshot) :
            /\ b \in DOMAIN Bins(fs) <=> b \in DOMAIN Bins(beforeRollback)
            /\ b \in DOMAIN Bins(fs) =>
                 Bins(fs)[b] = Bins(beforeRollback)[b]

\* install.sh created a binary that was not installed at snapshot time, and
\* the rollback restored another one.
C9_Witness ==
    /\ StepsSucceeded
    /\ \E b \in BinaryNames \ DOMAIN Bins(atSnapshot) :
         b \in DOMAIN Bins(beforeRollback)
    /\ Bins(fs) # Bins(beforeRollback)

\* perform_rollback called once, and called again on what it left, with no
\* I/O fault
RolledBackOnce ==
    perform_rollback(fs, snapshot_dir, order, -1, search_path)

RolledBackTwice ==
    perform_rollback(RolledBackOnce.fs, snapshot_dir, order, -1, search_path)

\* C10: perform_rollback is idempotent: called twice in a row with the same
\* snapshot it leaves the state directory and the binaries as one call does.
C10_RollbackIdempotent ==
    pc = "RollingBack" =>
        /\ Production(RolledBackTwice.fs) = Production(RolledBackOnce.fs)
        /\ RolledBackTwice.ok = RolledBackOnce.ok

\* A rollback that returns Ok and changes both the state directory and the
\* binaries.
C10_Witness ==
    /\ pc = "RollingBack"
    /\ RolledBackOnce.ok
    /\ StateDir(RolledBackOnce.fs) # StateDir(fs)
    /\ Bins(RolledBackOnce.fs) # Bins(fs)

\* The places in the log where the step `name` ran
Ran(name) == {i \in DOMAIN log : log[i].step = name}

\* The step `name` ran and succeeded before place i of the log
SucceededBefore(name, i) == \E j \in 1..(i - 1) : log[j] = Step(name, TRUE)

SnapshotFailed == pc = "done" /\ snap.calls = 1 /\ ~snap.ok

\* C11 as claimed: install_new_version runs only after create_snapshot
\* returned Ok in the same run; when create_snapshot fails, the run ends
\* without install_new_version or perform_rollback having run, and the state
\* directory and the named binaries are what they were when the run began.
C11_Original ==
    /\ \A i \in Ran("Installing") : SucceededBefore("Snapshotting", i)
    /\ SnapshotFailed =>
         /\ Ran("Installing") = {} /\ Ran("RollingBack") = {}
         /\ StateDir(fs) = StateDir(pre)
         /\ Bins(fs) = Bins(pre)

\* C11 as amended: as claimed, but of the state directory only what lies
\* outside its snapshots subtree is what it was when the run began: a failed
\* create_snapshot leaves the state directory (created if it was absent)
\* with the part of the snapshot it had written.
C11_InstallOnlyAfterSnapshot ==
    /\ \A i \in Ran("Installing") : SucceededBefore("Snapshotting", i)
    /\ SnapshotFailed =>
         /\ Ran("Installing") = {} /\ Ran("RollingBack") = {}
         /\ TreeExcept(fs, kernelle_home, "snapshots")
              = TreeExcept(pre, kernelle_home, "snapshots")
         /\ Bins(fs) = Bins(pre)

\* create_snapshot failed on an installation with a configuration file and
\* a primary binary, and left a part of its snapshot.
C11_Witness ==
    /\ SnapshotFailed
    /\ Exists(pre, Append(kernelle_home, "config"))
    /\ Exists(pre, Append(install_dir, "kernelle"))
    /\ Exists(fs, Append(SnapshotDir(timestamp), "kernelle_home"))

\* C12: when the run has ended, whatever its result, nothing is left at or
\* under the staging directory that the run created.
C12_StagingRemovedAtExit ==
    pc = "done" => \A p \in DOMAIN fs : ~IsPrefix(staging_dir, p)

\* A run ended by a rollback that ran while the staging directory, with the
\* extracted release in it, was still there.
C12_Witness ==
    /\ pc = "done"
    /\ rollback.calls = 1
    /\ Exists(beforeRollback, tarball_path)
    /\ IsDir(beforeRollback, kernelle_staging)

\* The directories that extracting the archive produced at the top of the
\* staging directory: every directory there except the two that execute
\* created before the download.
ExtractedDirs(f) ==
    {p \in DOMAIN f : /\ Len(p) = Len(staging_dir) + 1
                      /\ IsPrefix(staging_dir, p)
                      /\ IsDir(f, p)
                      /\ p \notin {kernelle_staging, bins_staging}}

\* download_and_extract returned a directory and the run goes on
Returned == pc = "StagingValidate"

\* C13: download_and_extract returns a directory only if extracting the
\* archive produced a directory whose name contains "kernelle"; otherwise
\* it fails with an extraction error.
C13_NoMatchIsExtractionError ==
    Returned => \E p \in ExtractedDirs(fs) : ContainsKernelle(p[Len(p)])

\* C20: the directory download_and_extract returns is one that extracting
\* the archive produced, never the staged state directory or the staged
\* binary directory.
C20_ExtractedIsFromArchive ==
    Returned => /\ extracted_dir \in ExtractedDirs(fs)
                /\ extracted_dir \notin {kernelle_staging, bins_staging}

\* C14: a run that ends in Success leaves the snapshots directory as it was
\* when create_snapshot returned: the snapshot of this run and every
\* snapshot that was there before the run are present and unchanged.
C14_SnapshotsKeptOnSuccess ==
    Outcome(result) = "Success" =>
        Tree(fs, snapshots_dir)
          = Tree(SnapshotOf(pre, timestamp), snapshots_dir)

\* A successful run on an installation that had an earlier snapshot, with
\* an installer that replaced the configuration file and the primary binary.
C14_Witness ==
    /\ Outcome(result) = "Success"
    /\ IsDir(pre, Append(snapshots_dir, "pre_update_1"))
    /\ IsDir(fs, Append(snapshots_dir, "pre_update_1"))
    /\ fs[SnapshotDir(timestamp) \o <<"kernelle_home", "config">>] = "old"
    /\ fs[Append(kernelle_home, "config")] = "new"
    /\ fs[Append(install_dir, "kernelle")] = "new"

\* How many times perform_rollback has run
Rollbacks == Cardinality(Ran("RollingBack"))

InstallOrVerifyFailed ==
    \E i \in DOMAIN log :
        log[i] \in {Step("Installing", FALSE), Step("Verifying", FALSE)}

\* C15: perform_rollback never runs more than once in a run; a run that has
\* ended ran it exactly once if install_new_version or the verification
\* that follows it failed, and not at all otherwise.
C15_RollbackOnceIffInstallOrVerifyFailed ==
    /\ Rollbacks <= 1
    /\ rollback.calls = Rollbacks
    /\ pc = "done" => Rollbacks = (IF InstallOrVerifyFailed THEN 1 ELSE 0)

\* A run ended after the installer succeeded, the verification failed and
\* the one rollback failed too.
C15_Witness ==
    /\ pc = "done"
    /\ \E i \in DOMAIN log : log[i] = Step("Verifying", FALSE)
    /\ Rollbacks = 1
    /\ Outcome(result) = "RollbackFailed"

\* The forward steps of execute, in the order of its code
Forward ==
    <<"ResolvingVersion", "CreateStaging", "StagingDownload",
      "StagingValidate", "Snapshotting", "Installing", "Verifying">>

Rank(name) == CHOOSE k \in DOMAIN Forward : Forward[k] = name

IsForward(name) == \E k \in DOMAIN Forward : Forward[k] = name

\* C16: the forward steps of a run are passed in the order of Forward: a
\* step that ran later than another comes later in that order (so no step
\* runs twice and the run never goes back), a step runs only after the step
\* before it succeeded, the step the run is at comes after all that ran,
\* and a run ends in Success only after the verification succeeded.
C16_ForwardOrder ==
    /\ \A i, j \in DOMAIN log :
         (i < j /\ IsForward(log[i].step) /\ IsForward(log[j].step))
            => Rank(log[i].step) < Rank(log[j].step)
    /\ \A j \in DOMAIN log :
         (IsForward(log[j].step) /\ Rank(log[j].step) > 1)
            => SucceededBefore(Forward[Rank(log[j].step) - 1], j)
    /\ IsForward(pc) =>
         /\ \A i \in DOMAIN log :
              IsForward(log[i].step) => Rank(log[i].step) < Rank(pc)
         /\ Rank(pc) > 1 =>
              SucceededBefore(Forward[Rank(pc) - 1], Len(log) + 1)
    /\ Outcome(result) = "Success" =>
         /\ log[Len(log)] = Step("Verifying", TRUE)
         /\ Cardinality({i \in DOMAIN log : IsForward(log[i].step)})
              = Len(Forward)

\* A run that passed every forward step and ended in Success
C16_Witness ==
    /\ Outcome(result) = "Success"
    /\ \A k \in DOMAIN Forward : Ran(Forward[k]) # {}

\* C17 as claimed: verify_installation is only ever called after
\* install_new_version returned Ok in the same run.
C17_Original ==
    \A i \in Ran("Verifying") \cup Ran("RollbackVerify") :
        SucceededBefore("Installing", i)

\* C17 as amended: the verification step of execute runs only after
\* install_new_version returned Ok in the same run; perform_rollback calls
\* verify_installation as well, as its last step, in a run whose installer
\* or verification failed.
C17_VerifyStepOnlyAfterInstall ==
    /\ \A i \in Ran("Verifying") : SucceededBefore("Installing", i)
    /\ \A i \in Ran("RollbackVerify") :
         /\ i < Len(log) /\ log[i + 1].step = "RollingBack"
         /\ \E j \in 1..(i - 1) :
              log[j] \in {Step("Installing", FALSE), Step("Verifying", FALSE)}

\* The installer failed, so the verification step did not run, and the
\* rollback ran verify_installation on what it had restored.
C17_Witness ==
    /\ pc = "done"
    /\ \E j \in DOMAIN log : log[j] = Step("Installing", FALSE)
    /\ Ran("Verifying") = {}
    /\ Ran("RollbackVerify") # {}

\* What perform_rollback does from the state it was called in when no
\* operation of it fails
Unfaulted ==
    perform_rollback(beforeRollback, snapshot_dir, order, -1, search_path)

\* C18: perform_rollback returns Ok only if all its restoration steps ran
\* to their end and verify_installation passed on what they restored; when
\* it returns an error, be it of a copy or remove step or of the closing
\* verification after a complete restoration, the run ends in
\* RollbackFailed with that error in its message.
C18_RollbackOkOnlyIfAllSucceeded ==
    rollback.calls = 1 =>
        /\ rollback.res = "ok" =>
             /\ fs = DropStaging(Unfaulted.fs)
             /\ verify_installation(fs, search_path) = "none"
             /\ Outcome(result) = "RolledBack"
        /\ rollback.res # "ok" =>
             /\ Outcome(result) = "RollbackFailed"
             /\ result.msg[4] = rollback.res
        /\ verify_installation(Unfaulted.fs, search_path) # "none" =>
             rollback.res # "ok"

\* The restoration was complete, the verification of the restored
\* installation failed and the run ended in RollbackFailed.
C18_Witness ==
    /\ rollback.calls = 1
    /\ rollback.res \in VerifyErrors
    /\ fs = DropStaging(Unfaulted.fs)
    /\ Outcome(result) = "RollbackFailed"

\* C19: when there is no state directory as create_snapshot is called and
\* no operation of it is made to fail, create_snapshot returns Ok and the
\* state backup of its snapshot is empty.
C19_AbsentStateDirGivesEmptyBackup ==
    (/\ snap.calls = 1
     /\ ~Exists(atSnapshot, kernelle_home)
     /\ snap.err # "io")
        => /\ snap.ok
           /\ DOMAIN Tree(fs, Append(SnapshotDir(timestamp), "kernelle_home"))
                = {}

\* The primary binary of the binary directory that create_snapshot and
\* perform_rollback work on
PrimaryBinary == Append(install_dir, "kernelle")

\* C21: when a run ends in Success, the binary that verify_installation ran
\* is the primary binary of the binary directory, and that binary passes
\* the version check.
C21_SuccessVerifiedInstalledBinary ==
    Outcome(result) = "Success" =>
        /\ Which(fs, search_path, "kernelle") = PrimaryBinary
        /\ Exists(fs, PrimaryBinary)
        /\ VersionCheck(fs, PrimaryBinary)

====
